---- MODULE Spec2Model ----
(***************************************************************************)
(* A model of the chest-radiograph feature pipeline of src/image.py and    *)
(* src/preprocessing.py: image/mask pairing (ImageTuple), the masking      *)
(* kernel and the preprocessing of a pair (ImageProcessor), the mask       *)
(* generator's file naming (LungMaskGenerator), and the streaming of the   *)
(* feature rows into the dataset file (ImageCharacteristics.save).         *)
(*                                                                         *)
(* File names are records [stem, ext]; a stem is a sequence of tokens, so  *)
(* that "scanA_processed" is <<"scanA", "_processed">>.  The tokens form a *)
(* prefix code and only the token "_processed" holds the text "_p", so     *)
(* str.replace("_processed", "") on the text is the removal of every       *)
(* "_processed" token, and equality of texts is equality of sequences.     *)
(***************************************************************************)
EXTENDS Integers, Sequences, FiniteSets

VARIABLES
    \* ---- ImageProcessor (one image/mask tuple) ----
    heap,                  \* array id -> pixel grid (NoArray when not allocated)
    img_data,              \* tuple.image.data : array id
    mask_data,             \* tuple.mask.data  : array id
    eq_img_data,           \* local eq_img_data of __process_image : array id or 0
    processed_image_data,  \* local processed_image_data : array id or 0
    ppc,                   \* "loaded" | "processed" | "saved"
    loaded,                \* history: the grids as read from disk
    pre,                   \* history: the kernel's arguments at the moment of its call
    saved,                 \* the file written by save_as_processed, or NoFile
    \* ---- ImageTuple construction ----
    tuple,                 \* outcome of the last ImageTuple construction, or NoTuple
    \* ---- LungMaskGenerator / ImageSaver / from_image ----
    files,                 \* glob listing of folder_in
    out_dir,               \* folder_out (a path, as a token sequence)
    mask_files,            \* masks written into folder_out, in writing order
    processed_files,       \* processed copies written by ImageSaver.save_to (covid class)
    normal_processed_files,\* processed copies of the normal class
    gen_call,              \* the last call made on this component and what it raised
    \* ---- ImageCharacteristics ----
    normal_files,          \* glob listing behind self.normal_images
    cov_files,             \* glob listing behind self.cov_images
    normal_pos,            \* images already taken from the generator self.normal_images
    cov_pos,               \* images already taken from the generator self.cov_images
    normal_finished,       \* the generator self.normal_images has ended (exhausted or raised)
    cov_finished,          \* the generator self.cov_images has ended
    normal_lenght,         \* self.normal_lenght
    cov_lenght,            \* self.cov_lenght
    pc,                    \* position of save: "idle" | "normal" | "cov" | "returned" | "raised"
    pool,                  \* "none" | "open" | "closed" | "joined"
    out_rows,              \* rows of the output file
    normal_progress,       \* n of the tqdm bar normal_progress (-1: bar not created)
    cov_progress,          \* n of the tqdm bar cov_progress (-1: bar not created)
    err,                   \* why save raised: "none" | "image" | "io" | "pool"
    calls,                 \* calls of save started on this object
    at_call                \* history: how the last call of save found the object

procVars == <<heap, img_data, mask_data, eq_img_data, processed_image_data,
              ppc, loaded, pre, saved>>
genVars  == <<files, out_dir, mask_files, processed_files, normal_processed_files,
              gen_call>>
saveVars == <<normal_files, cov_files, normal_pos, cov_pos, normal_finished,
              cov_finished, normal_lenght,
              cov_lenght, pc, pool, out_rows, normal_progress, cov_progress, err,
              calls, at_call>>
vars == <<procVars, tuple, genVars, saveVars>>

(***************************************************************************)
(* Bounds of the model.                                                    *)
(***************************************************************************)
Height == 1
Width == 2
MaxStemLen == 2
MaxFiles == 2
MaxNormal == 3
MaxCov == 2
MaxCalls == 2

(***************************************************************************)
(* File names.                                                             *)
(***************************************************************************)
Tokens == {"scanA", "scanB", "_processed", "_mask"}
Exts == {".png", ".jpg"}

SeqsUpTo(S, n) == UNION {[1..k -> S] : k \in 1..n}

ImageNames == [stem : SeqsUpTo(Tokens, MaxStemLen), ext : Exts]
MaskNames == [stem : SeqsUpTo(Tokens, MaxStemLen + 1), ext : Exts]

\* str.replace("_processed", ""): every occurrence is removed.
RemoveProcessed(s) == SelectSeq(s, LAMBDA t : t # "_processed")

\* Image.get_filename: os.path.splitext(os.path.basename(file_path)).
GetFilename(name) == <<name.stem, name.ext>>

\* "%s_processed%s" % (filename, fileext) of Image.save_as_processed.
ProcessedName(name) ==
    [stem |-> GetFilename(name)[1] \o <<"_processed">>, ext |-> GetFilename(name)[2]]

\* "%s_mask%s" % (filename, fileext) of LungMaskGenerator.__save_result.
SaveResultName(result_file) ==
    [stem |-> result_file.stem \o <<"_mask">>, ext |-> result_file.ext]

(***************************************************************************)
(* ImageTuple: construction and check_consistency.                         *)
(***************************************************************************)
NoTuple == [raised |-> "nothing constructed"]

\* The text of a ValueError of check_consistency: its fixed words and the
\* four values the f-string formats into it.
Message(text, filename1, extension1, filename2, extension2) ==
    [text |-> text, first |-> <<filename1, extension1>>,
     second |-> <<filename2, extension2>>]

\* The outcome of check_consistency for an image and a mask file name:
\* raised is "none" when it returns, else the exception's type.
CheckConsistency(image, mask) ==
    LET image_filename  == GetFilename(image)[1]
        image_extension == GetFilename(image)[2]
        mask_filename   == GetFilename(mask)[1]
        mask_extension  == GetFilename(mask)[2]
        stripped        == RemoveProcessed(image_filename)
    IN  IF image_extension # mask_extension
        THEN [raised  |-> "ValueError",
              message |-> Message("{}.{} and {}.{} have different extensions!",
                                  image_filename, image_extension,
                                  mask_filename, mask_extension)]
        ELSE IF stripped \o <<"_mask">> # mask_filename
        THEN [raised  |-> "ValueError",
              message |-> Message("The mask {}.{} is not valid for {}.{}!",
                                  mask_filename, mask_extension,
                                  stripped, image_extension)]
        ELSE [raised |-> "none", message |-> Message("", <<>>, "", <<>>, "")]

\* ImageTuple.__init__: the fields are set, then check_consistency runs; the
\* object exists for the caller only when nothing was raised.
ImageTupleInit(image, mask) ==
    LET c == CheckConsistency(image, mask)
    IN  [image |-> image, mask |-> mask, raised |-> c.raised, message |-> c.message]

(***************************************************************************)
(* ImageProcessor: pixel grids live in a heap of arrays, so that copying   *)
(* and aliasing are visible.                                               *)
(***************************************************************************)
Threshold == 20

Pos == (1..Height) \X (1..Width)
ImagePixels == {40, 200}
MaskPixels == {19, 20, 21}

ArrayIds == 1..4
NoArray == <<>>
NoCall == [img |-> NoArray, mask |-> NoArray]
NoFile == [name |-> "", data |-> NoArray]

\* The id a newly created ndarray gets.
NewId(h) == CHOOSE i \in ArrayIds : h[i] = NoArray /\ \A j \in 1..(i - 1) : h[j] # NoArray

\* cv2.createCLAHE().apply(src): a new array holding the contrast-equalized
\* image.  CLAHE is a library transform; it is modelled by histogram
\* equalization over the whole grid (each value is mapped through the
\* cumulative distribution of the image), which like CLAHE depends on the
\* other pixels of the image and is not the identity.
Equalize(g) ==
    [p \in Pos |-> (Cardinality({q \in Pos : g[q] <= g[p]}) * 255) \div Cardinality(Pos)]

ClaheApply(h, src) ==
    LET id == NewId(h) IN [heap |-> [h EXCEPT ![id] = Equalize(h[src])], ret |-> id]

\* A slip: no copy is taken, the kernel writes into its argument.
NpCopyAlias(h, src) == [heap |-> h, ret |-> src]

\* np.copy(img_data): a new array with the same cells.
NpCopy(h, src) ==
    LET id == NewId(h) IN [heap |-> [h EXCEPT ![id] = h[src]], ret |-> id]

\* A slip: a strict comparison, which keeps the pixels whose mask is 20.
MaskedPixelStrict(v, m) == IF m < Threshold THEN 0 ELSE v

\* The body of the kernel's loop for one cell: v is modified_img_data[i, j]
\* before the iteration, m is mask_data[i, j]; the result is the cell after.
MaskedPixel(v, m) == IF m <= Threshold THEN 0 ELSE v

\* ImageProcessor.__apply_mask(img_data, mask_data): the heap after the call
\* and the id of the array returned.  The iterations write disjoint cells, so
\* their order (prange) does not matter.
ApplyMask(h, img, mask) ==
    LET c == NpCopy(h, img)
        modified_img_data == c.ret
    IN  [heap |-> [c.heap EXCEPT ![modified_img_data] =
                      [p \in Pos |-> MaskedPixel(c.heap[modified_img_data][p],
                                                 c.heap[mask][p])]],
         ret  |-> modified_img_data]

\* A slip: the mask is applied to the raw image and the result is equalized.
ProcessImageMaskFirst(h, img, mask) ==
    LET r == ApplyMask(h, img, mask)
        e == ClaheApply(r.heap, r.ret)
    IN  [heap |-> e.heap, eq_img_data |-> e.ret, processed_image_data |-> e.ret,
         pre |-> [img |-> h[img], mask |-> h[mask]]]

\* ImageProcessor.__process_image(img, mask) up to the assignment of
\* img.data: the heap after it, its two locals, and the kernel's arguments
\* as they were when the kernel was called.
ProcessImage(h, img, mask) ==
    LET e == ClaheApply(h, img)
        r == ApplyMask(e.heap, e.ret, mask)
    IN  [heap |-> r.heap, eq_img_data |-> e.ret, processed_image_data |-> r.ret,
         pre |-> [img |-> e.heap[e.ret], mask |-> e.heap[mask]]]

ProcIdle ==
    /\ heap = [i \in ArrayIds |-> NoArray]
    /\ img_data = 0 /\ mask_data = 0
    /\ eq_img_data = 0 /\ processed_image_data = 0
    /\ ppc = "idle"
    /\ loaded = [file_path |-> "", image |-> NoArray, mask |-> NoArray]
    /\ pre = NoCall
    /\ saved = NoFile

\* ImageProcessor.__init__ for a folder holding one image and its mask: the
\* tuple's two arrays are the grids read from disk.
InitProcess ==
    /\ \E g \in [Pos -> ImagePixels], m \in [Pos -> MaskPixels] :
          /\ heap = [i \in ArrayIds |-> IF i = 1 THEN g ELSE IF i = 2 THEN m ELSE NoArray]
          /\ loaded = [file_path |-> [stem |-> <<"scanA">>, ext |-> ".png"],
                       image |-> g, mask |-> m]
    /\ img_data = 1 /\ mask_data = 2
    /\ eq_img_data = 0 /\ processed_image_data = 0
    /\ ppc = "loaded"
    /\ pre = NoCall
    /\ saved = NoFile

\* ImageProcessor.process: __process_image on the tuple; img.data is rebound
\* to the processed array.
Process ==
    /\ ppc = "loaded"
    /\ LET r == ProcessImage(heap, img_data, mask_data)
       IN  /\ heap' = r.heap
           /\ eq_img_data' = r.eq_img_data
           /\ processed_image_data' = r.processed_image_data
           /\ pre' = r.pre
           /\ img_data' = r.processed_image_data
    /\ ppc' = "processed"
    /\ UNCHANGED <<mask_data, loaded, saved>>

\* ImageSaver.save_to: save_as_processed writes the image's data under the
\* name <stem>_processed<ext>.
SaveTo ==
    /\ ppc = "processed"
    /\ saved' = [name |-> ProcessedName(loaded.file_path), data |-> heap[img_data]]
    /\ ppc' = "saved"
    /\ UNCHANGED <<heap, img_data, mask_data, eq_img_data, processed_image_data,
                   loaded, pre>>

(***************************************************************************)
(* LungMaskGenerator, ImageSaver and ImageTuple.from_image over the names  *)
(* of a folder.                                                            *)
(***************************************************************************)
GenTokens == {"scanA", "_processed"}
GenNames == [stem : SeqsUpTo(GenTokens, MaxStemLen), ext : Exts]
Dirs == {<<"masks">>, <<"covid", "_processed", "_masks">>}

Listings(S, n) ==
    {f \in SeqsUpTo(S, n) : \A i, j \in 1..Len(f) : f[i] = f[j] => i = j}

\* LungMaskGenerator.__save_result: the names written, in writing order, one
\* for each of the npy_len predictions.
SaveResult(npy_len, test_files) ==
    [i \in 1..npy_len |-> SaveResultName(test_files[i])]

\* The path ImageTuple.from_image loads the mask from: "%s/%s" of the masks
\* directory and "<stem>_mask<ext>", with "_processed" replaced in the whole
\* path (directory included).
MaskImgPath(image, masks_dir_path) ==
    LET img_filename == GetFilename(image)
    IN  [dir  |-> RemoveProcessed(masks_dir_path),
         stem |-> RemoveProcessed(img_filename[1] \o <<"_mask">>),
         ext  |-> img_filename[2]]

\* ImageTuple.from_image(image, masks_dir_path) in a file system where the
\* directory fs_dir holds the files fs_names.  The mask's path is built,
\* "_processed" is replaced in the whole path, and the mask is loaded:
\* cv2.imread gives None for a missing file and cv2.resize then raises.
\* mask_path is the file_path of the mask Image, masks_dir_path the argument.
FromImage(image, masks_dir_path, fs_dir, fs_names) ==
    LET mask_img_path == MaskImgPath(image, masks_dir_path)
        mask          == [stem |-> mask_img_path.stem, ext |-> mask_img_path.ext]
        t             == ImageTupleInit(image, mask)
    IN  IF mask_img_path.dir = fs_dir /\ \E i \in 1..Len(fs_names) : fs_names[i] = mask
        THEN [image |-> image, mask |-> mask, raised |-> t.raised,
              message |-> t.message, mask_path |-> mask_img_path,
              masks_dir_path |-> masks_dir_path]
        ELSE [image |-> image, mask |-> mask, raised |-> "cv2.error",
              message |-> Message("", <<>>, "", <<>>, ""), mask_path |-> mask_img_path,
              masks_dir_path |-> masks_dir_path]

\* No call was made yet.
NoGenCall == [op |-> "none", raised |-> "none"]

\* The normal class handed to Preprocessing.process_images: the listing of
\* the normal folder and the content of its masks folder.
NormalMasksDir == <<"normal_masks">>
NormalScan == [stem |-> <<"scanA">>, ext |-> ".png"]
NormalArtifacts ==
    [files : {<<>>, <<NormalScan>>}, masks : {<<>>, <<SaveResultName(NormalScan)>>}]

GenIdle ==
    /\ files = <<>> /\ out_dir = <<>>
    /\ mask_files = <<>> /\ processed_files = <<>>
    /\ normal_processed_files = <<>>
    /\ gen_call = NoGenCall

\* LungMaskGenerator.__init__ over a folder_in with its listing and a
\* folder_out that is empty or holds masks named as __save_result names them.
InitGen ==
    /\ files \in Listings(GenNames, MaxFiles)
    /\ out_dir \in Dirs
    /\ mask_files \in {<<>>, SaveResult(Len(files), files)}
    /\ processed_files = <<>>
    /\ normal_processed_files = <<>>
    /\ gen_call = NoGenCall
    /\ tuple = NoTuple

\* LungMaskGenerator.generate: its first statement, model = model(...), reads
\* the local name model before it is bound (the assignment makes the name
\* local to generate), so UnboundLocalError is raised on every call; nothing
\* is listed, predicted or written.
Generate ==
    /\ gen_call' = [op |-> "generate", raised |-> "UnboundLocalError"]
    /\ UNCHANGED <<files, out_dir, mask_files, processed_files,
                   normal_processed_files, tuple>>

\* Preprocessing.generate_lungs_masks: check_folder re-creates both masks
\* folders, which leaves them empty, then the first generate() raises.
GenerateLungsMasks ==
    /\ mask_files' = <<>>
    /\ gen_call' = [op |-> "generate_lungs_masks", raised |-> "UnboundLocalError"]
    /\ UNCHANGED <<files, out_dir, processed_files, normal_processed_files, tuple>>

\* Preprocessing.process_images: ImageProcessor.__init__ pairs every covid
\* image with its mask, then every normal image with its mask (the first
\* failure propagates and nothing is saved); both classes are processed, the
\* two save folders are re-created and ImageSaver.save_to writes the
\* processed copies of the covid class, then of the normal class.
ProcessImages ==
    \E normal \in NormalArtifacts :
        LET cov_tuples == [i \in 1..Len(files) |->
                              FromImage(files[i], out_dir, out_dir, mask_files)]
            normal_tuples == [i \in 1..Len(normal.files) |->
                                 FromImage(normal.files[i], NormalMasksDir,
                                           NormalMasksDir, normal.masks)]
            tuples == cov_tuples \o normal_tuples
            bad    == {i \in 1..Len(tuples) : tuples[i].raised # "none"}
            first  == CHOOSE i \in bad : \A j \in bad : i <= j
        IN  /\ IF bad # {}
               THEN /\ tuple' = tuples[first]
                    /\ gen_call' = [op |-> "process_images", raised |-> tuples[first].raised]
                    /\ UNCHANGED <<processed_files, normal_processed_files>>
               ELSE /\ tuple' = tuples[Len(tuples)]
                    /\ gen_call' = [op |-> "process_images", raised |-> "none"]
                    /\ processed_files' = [i \in 1..Len(files) |-> ProcessedName(files[i])]
                    /\ normal_processed_files' =
                           [i \in 1..Len(normal.files) |-> ProcessedName(normal.files[i])]
            /\ UNCHANGED <<files, out_dir, mask_files>>

\* ImageTuple.from_image on the i-th original image.
PairOriginal(i) ==
    /\ tuple' = FromImage(files[i], out_dir, out_dir, mask_files)
    /\ gen_call' = [op |-> "from_image", raised |-> tuple'.raised]
    /\ UNCHANGED <<files, out_dir, mask_files, processed_files, normal_processed_files>>

\* ImageTuple.from_image on the i-th processed copy (__extract_from_image).
PairProcessed(i) ==
    /\ i <= Len(processed_files)
    /\ tuple' = FromImage(processed_files[i], out_dir, out_dir, mask_files)
    /\ gen_call' = [op |-> "from_image", raised |-> tuple'.raised]
    /\ UNCHANGED <<files, out_dir, mask_files, processed_files, normal_processed_files>>

(***************************************************************************)
(* ImageCharacteristics: feature rows and save.                            *)
(*                                                                         *)
(* An image of a listing is [file, fault]: fault says what processing it   *)
(* raises, "pair" in ImageTuple.from_image (mask missing or not matching), *)
(* "features" in a feature library, "none" when nothing fails.  A feature  *)
(* value is <<extractor, image, position>>.                                *)
(***************************************************************************)
RadiomicsSkip == 36

Faults == {"none", "unreadable", "pair", "features"}

ClassListings(class, n) ==
    UNION {{[k \in 1..m |-> [file |-> <<class, k>>, fault |-> f[k]]] : f \in [1..m -> Faults]}
           : m \in 0..n}

\* mt.features.lbp(self.data, 8, 8)
Lbp(img) == << <<"lbp", img.file, 1>> >>
\* mt.features.zernike(self.data, 10, 10)
Zernike(img) == << <<"zernike", img.file, 1>> >>
\* mt.features.tas(self.data)
Tas(img) == << <<"tas", img.file, 1>> >>
\* Image.haralick: np.mean over the four directions of mt.features.haralick
Haralick(img) == << <<"haralick_mean", img.file, 1>> >>

\* Image.mahotas_characteristics
MahotasCharacteristics(img) == Lbp(img) \o Zernike(img) \o Tas(img)

\* extractor.execute(...).values() as a list
RadiomicsExecute(img) == [k \in 1..(RadiomicsSkip + 2) |-> <<"radiomics", img.file, k>>]

\* ImageTuple.radiomics: list(result.values())[36:]
Radiomics(img) ==
    LET result == RadiomicsExecute(img)
    IN  SubSeq(result, RadiomicsSkip + 1, Len(result))

\* __extract_from_image(img, label, mask_path), consumed to its end as
\* csv's writerow does: what it raises, or the values it yields.
ExtractFromImage(img, label) ==
    IF img.fault \in {"pair", "unreadable"}
    THEN [raised |-> TRUE, row |-> <<>>]
    ELSE IF img.fault = "features"
    THEN [raised |-> TRUE, row |-> <<>>]
    ELSE [raised |-> FALSE,
          row |-> MahotasCharacteristics(img) \o Radiomics(img) \o <<label>>]

\* A slip: the row is put in front of the rows already written.
WriteRowFirst(rows, row) == <<row>> \o rows

\* writer.writerow(features) on a healthy stream: one row is appended.
WriteRow(rows, row) == Append(rows, row)

\* A slip: the pool is closed but never joined.
PoolFinallyNoJoin(p) == "closed"

\* The finally block of save: pool.close(); pool.join().
PoolFinally(p) == "joined"

\* No call of save was started yet.
NoCallYet == [pc |-> "idle", normal_pos |-> 0, cov_pos |-> 0]

SaveIdle ==
    /\ normal_files = <<>> /\ cov_files = <<>>
    /\ normal_pos = 0 /\ cov_pos = 0
    /\ normal_finished = FALSE /\ cov_finished = FALSE
    /\ normal_lenght = 0 /\ cov_lenght = 0
    /\ pc = "idle" /\ pool = "none" /\ out_rows = <<>>
    /\ normal_progress = -1 /\ cov_progress = -1
    /\ err = "none" /\ calls = 0
    /\ at_call = NoCallYet

\* ImageCharacteristics.__init__: both generators are created and their
\* first value, the length of the listing, is taken.
InitSave ==
    /\ normal_files \in ClassListings("normal", MaxNormal)
    /\ cov_files \in ClassListings("cov", MaxCov)
    /\ normal_pos = 0 /\ cov_pos = 0
    /\ normal_finished = FALSE /\ cov_finished = FALSE
    /\ normal_lenght = Len(normal_files)
    /\ cov_lenght = Len(cov_files)
    /\ pc = "idle" /\ pool = "none" /\ out_rows = <<>>
    /\ normal_progress = -1 /\ cov_progress = -1
    /\ err = "none" /\ calls = 0
    /\ at_call = NoCallYet

\* An exception leaves save: the finally block runs, the exception reaches
\* the caller.
Raise(kind) ==
    /\ pc' = "raised"
    /\ err' = kind
    /\ pool' = PoolFinally(pool)

\* A cell of which only the first characters are in the file.
CutCell(cell) == <<"cut", cell>>

\* What is left of a row whose text is cut before its last cell ends: its
\* first j cells, then possibly the first characters of the next cell (the
\* label, one character, is there or is not).
TornRow(row) ==
    {SubSeq(row, 1, j) : j \in 1..(Len(row) - 1)}
      \cup {Append(SubSeq(row, 1, j), CutCell(row[j + 1])) : j \in 0..(Len(row) - 2)}

\* What the file can hold after a flush of the buffered rows has failed: the
\* text of the rows cut somewhere before its end.  That is some of the first
\* rows whole, then possibly a part of the next row; when only the last line
\* end is missing every row is whole.  Nothing buffered, nothing to fail.
Torn(rows) ==
    IF rows = <<>>
    THEN {}
    ELSE {SubSeq(rows, 1, n) : n \in 0..Len(rows)}
           \cup UNION {{Append(SubSeq(rows, 1, n), part) : part \in TornRow(rows[n + 1])}
                          : n \in 0..(Len(rows) - 1)}

\* The stream holding rows cannot be flushed (in writerow, or when the with
\* block closes the file): OSError leaves save.
FailedFlush(rows) ==
    /\ \E torn \in Torn(rows) : out_rows' = torn
    /\ Raise("io")

\* A slip: every call of save starts both listings again from their first
\* image, as it would with lists or with generators created in save.
SaveBeginRewind ==
    /\ pc \in {"idle", "returned", "raised"}
    /\ calls < MaxCalls
    /\ calls' = calls + 1
    /\ at_call' = [pc |-> pc, normal_pos |-> normal_pos, cov_pos |-> cov_pos]
    /\ normal_pos' = 0
    /\ cov_pos' = 0
    /\ normal_finished' = FALSE
    /\ cov_finished' = FALSE
    /\ \/ /\ pc' = "raised"
          /\ err' = "pool"
          /\ pool' = "none"
          /\ normal_progress' = -1
          /\ cov_progress' = -1
          /\ UNCHANGED out_rows
       \/ /\ pool' = "open"
          /\ out_rows' = <<>>
          /\ normal_progress' = 0
          /\ cov_progress' = -1
          /\ pc' = "normal"
          /\ err' = "none"
       \/ /\ Raise("io")
          /\ normal_progress' = -1
          /\ cov_progress' = -1
          /\ UNCHANGED out_rows
    /\ UNCHANGED <<normal_files, cov_files, normal_lenght, cov_lenght>>

\* save up to the first loop.  mp.Pool(num_workers) stands before the try:
\* when it raises, save raises with no pool and no finally.  Else the output
\* is opened for writing (which empties it) and the first progress bar is
\* created, or the open fails and the finally block runs.
SaveBegin ==
    /\ pc \in {"idle", "returned", "raised"}
    /\ calls < MaxCalls
    /\ calls' = calls + 1
    /\ at_call' = [pc |-> pc, normal_pos |-> normal_pos, cov_pos |-> cov_pos]
    /\ \/ /\ pc' = "raised"
          /\ err' = "pool"
          /\ pool' = "none"
          /\ normal_progress' = -1
          /\ cov_progress' = -1
          /\ UNCHANGED out_rows
       \/ /\ pool' = "open"
          /\ out_rows' = <<>>
          /\ normal_progress' = 0
          /\ cov_progress' = -1
          /\ pc' = "normal"
          /\ err' = "none"
       \/ /\ Raise("io")
          /\ normal_progress' = -1
          /\ cov_progress' = -1
          /\ UNCHANGED out_rows
    /\ UNCHANGED <<normal_files, cov_files, normal_pos, cov_pos, normal_finished,
                   cov_finished, normal_lenght, cov_lenght>>

\* One iteration of the loop over self.normal_images.  The for statement
\* resumes the generator, which constructs the Image: for a file OpenCV
\* cannot read this raises inside the generator, which is finished by it.
\* Else the row is written into the stream's buffer and the bar is advanced,
\* or the flush of the buffer fails in writerow.  When an exception leaves the
\* with block, the file is closed, and that flush may fail too (OSError then
\* replaces the exception).
NormalImage ==
    /\ pc = "normal"
    /\ ~normal_finished
    /\ normal_pos < Len(normal_files)
    /\ normal_pos' = normal_pos + 1
    /\ LET img == normal_files[normal_pos + 1]
           features == ExtractFromImage(img, 0)
       IN  \/ /\ img.fault = "unreadable"
              /\ normal_finished' = TRUE
              /\ UNCHANGED normal_progress
              /\ \/ Raise("image") /\ UNCHANGED out_rows
                 \/ FailedFlush(out_rows)
           \/ /\ img.fault # "unreadable"
              /\ features.raised
              /\ UNCHANGED <<normal_finished, normal_progress>>
              /\ \/ Raise("image") /\ UNCHANGED out_rows
                 \/ FailedFlush(out_rows)
           \/ /\ img.fault # "unreadable"
              /\ ~features.raised
              /\ UNCHANGED normal_finished
              /\ \/ /\ out_rows' = WriteRow(out_rows, features.row)
                    /\ normal_progress' = normal_progress + 1
                    /\ UNCHANGED <<pc, err, pool>>
                 \/ /\ FailedFlush(WriteRow(out_rows, features.row))
                    /\ UNCHANGED normal_progress
    /\ UNCHANGED <<normal_files, cov_files, cov_pos, cov_finished, normal_lenght,
                   cov_lenght, cov_progress, calls, at_call>>

\* self.normal_images has nothing more to give (exhausted now, or finished
\* before): the second progress bar is created.
NormalExhausted ==
    /\ pc = "normal"
    /\ normal_finished \/ normal_pos = Len(normal_files)
    /\ normal_finished' = TRUE
    /\ pc' = "cov"
    /\ cov_progress' = 0
    /\ UNCHANGED <<normal_files, cov_files, normal_pos, cov_pos, cov_finished,
                   normal_lenght, cov_lenght, pool, out_rows, normal_progress, err,
                   calls, at_call>>

\* One iteration of the loop over self.cov_images.
CovImage ==
    /\ pc = "cov"
    /\ ~cov_finished
    /\ cov_pos < Len(cov_files)
    /\ cov_pos' = cov_pos + 1
    /\ LET img == cov_files[cov_pos + 1]
           features == ExtractFromImage(img, 1)
       IN  \/ /\ img.fault = "unreadable"
              /\ cov_finished' = TRUE
              /\ UNCHANGED cov_progress
              /\ \/ Raise("image") /\ UNCHANGED out_rows
                 \/ FailedFlush(out_rows)
           \/ /\ img.fault # "unreadable"
              /\ features.raised
              /\ UNCHANGED <<cov_finished, cov_progress>>
              /\ \/ Raise("image") /\ UNCHANGED out_rows
                 \/ FailedFlush(out_rows)
           \/ /\ img.fault # "unreadable"
              /\ ~features.raised
              /\ UNCHANGED cov_finished
              /\ \/ /\ out_rows' = WriteRow(out_rows, features.row)
                    /\ cov_progress' = cov_progress + 1
                    /\ UNCHANGED <<pc, err, pool>>
                 \/ /\ FailedFlush(WriteRow(out_rows, features.row))
                    /\ UNCHANGED cov_progress
    /\ UNCHANGED <<normal_files, cov_files, normal_pos, normal_finished, normal_lenght,
                   cov_lenght, normal_progress, calls, at_call>>

\* self.cov_images has nothing more to give: the with block closes the file,
\* which flushes the buffered rows; the finally block runs and save returns,
\* or raises the OSError of the failed flush.
CovExhausted ==
    /\ pc = "cov"
    /\ cov_finished \/ cov_pos = Len(cov_files)
    /\ cov_finished' = TRUE
    /\ \/ /\ pc' = "returned"
          /\ pool' = PoolFinally(pool)
          /\ UNCHANGED <<out_rows, err>>
       \/ FailedFlush(out_rows)
    /\ UNCHANGED <<normal_files, cov_files, normal_pos, cov_pos, normal_finished,
                   normal_lenght, cov_lenght, normal_progress, cov_progress, calls,
                   at_call>>

(***************************************************************************)
(* Specifications: one per component, the other components at rest.        *)
(***************************************************************************)
\* ImageTuple(image, mask) for any two file names.
NewImageTuple ==
    /\ tuple = NoTuple
    /\ \E image \in ImageNames, mask \in MaskNames : tuple' = ImageTupleInit(image, mask)
    /\ UNCHANGED <<procVars, genVars, saveVars>>

InitT == tuple = NoTuple /\ ProcIdle /\ GenIdle /\ SaveIdle
NextTuple == NewImageTuple
SpecTuple == InitT /\ [][NextTuple]_vars

InitP == InitProcess /\ tuple = NoTuple /\ GenIdle /\ SaveIdle
NextProcess ==
    \/ Process /\ UNCHANGED <<tuple, genVars, saveVars>>
    \/ SaveTo /\ UNCHANGED <<tuple, genVars, saveVars>>
SpecProcess == InitP /\ [][NextProcess]_vars

InitG == InitGen /\ ProcIdle /\ SaveIdle
NextGen ==
    \/ Generate /\ UNCHANGED <<procVars, saveVars>>
    \/ GenerateLungsMasks /\ UNCHANGED <<procVars, saveVars>>
    \/ ProcessImages /\ UNCHANGED <<procVars, saveVars>>
    \/ \E i \in 1..Len(files) : PairOriginal(i) /\ UNCHANGED <<procVars, saveVars>>
    \/ \E i \in 1..Len(files) : PairProcessed(i) /\ UNCHANGED <<procVars, saveVars>>
SpecGen == InitG /\ [][NextGen]_vars

InitS == InitSave /\ ProcIdle /\ tuple = NoTuple /\ GenIdle
NextSave ==
    \/ SaveBegin /\ UNCHANGED <<procVars, tuple, genVars>>
    \/ NormalImage /\ UNCHANGED <<procVars, tuple, genVars>>
    \/ NormalExhausted /\ UNCHANGED <<procVars, tuple, genVars>>
    \/ CovImage /\ UNCHANGED <<procVars, tuple, genVars>>
    \/ CovExhausted /\ UNCHANGED <<procVars, tuple, genVars>>
SpecSave == InitS /\ [][NextSave]_vars

(***************************************************************************)
(* Properties.                                                             *)
(***************************************************************************)
Processed == ppc \in {"processed", "saved"}
SaveEnded == pc \in {"returned", "raised"}
RowLabel(row) == row[Len(row)]
RowFile(row) == row[1][2]
NoFault(img) == img.fault = "none"
FilesOf(listing) == [k \in 1..Len(listing) |-> listing[k].file]
RowFiles == [k \in 1..Len(out_rows) |-> RowFile(out_rows[k])]
\* The rows of the output that are there to their last cell, the label.
RowLen == Len(ExtractFromImage([file |-> <<"normal", 1>>, fault |-> "none"], 0).row)
WholeRows == SelectSeq(out_rows, LAMBDA row : Len(row) = RowLen)

\* C1: for every cell (i,j) the grid returned by the masking kernel holds 0
\* where the mask cell is at most 20 and the kernel's input cell where the
\* mask cell is above 20.
C1_MaskedCells ==
    Processed =>
        \A p \in Pos :
            /\ pre.mask[p] <= 20 => heap[processed_image_data][p] = 0
            /\ pre.mask[p] > 20 => heap[processed_image_data][p] = pre.img[p]

\* C1 witness: the kernel has run on a mask holding 20 over a non-zero cell
\* (zeroed) and 21 over a non-zero cell (kept).
C1_Witness ==
    /\ Processed
    /\ \E p, q \in Pos :
          /\ pre.mask[p] = 20 /\ pre.img[p] # 0 /\ heap[processed_image_data][p] = 0
          /\ pre.mask[q] = 21 /\ pre.img[q] # 0
          /\ heap[processed_image_data][q] = pre.img[q]

\* C2: the rows of the output are grouped by class, normal (label 0) before
\* covid (label 1), and follow the listing inside a class; in the first save
\* of an object the k-th row is the row of the k-th image of normal listing
\* followed by covid listing, and a save that returns has written them all.
C2_ClassThenListingOrder ==
    LET n == Len(normal_files)
        rows == WholeRows
    IN
    /\ \A j, k \in 1..Len(rows) :
          j < k => /\ RowLabel(rows[j]) <= RowLabel(rows[k])
                   /\ RowLabel(rows[j]) = RowLabel(rows[k])
                        => RowFile(rows[j])[2] < RowFile(rows[k])[2]
    /\ calls = 1 =>
          /\ Len(out_rows) <= n + Len(cov_files)
          /\ \A k \in 1..Len(rows) :
                IF k <= n
                THEN RowLabel(rows[k]) = 0 /\ RowFile(rows[k]) = normal_files[k].file
                ELSE RowLabel(rows[k]) = 1 /\ RowFile(rows[k]) = cov_files[k - n].file
          /\ pc = "returned" => rows = out_rows /\ Len(out_rows) = n + Len(cov_files)

\* C2 witness: 3 normal and 2 covid images, save has returned, 5 rows with
\* the labels 0,0,0,1,1.
C2_Witness ==
    /\ pc = "returned" /\ calls = 1
    /\ Len(normal_files) = 3 /\ Len(cov_files) = 2
    /\ Len(out_rows) = 5
    /\ [k \in 1..5 |-> RowLabel(out_rows[k])] = <<0, 0, 0, 1, 1>>

\* C3: when an image fails, it is skipped and the batch goes on: at the end
\* of save the output holds the rows of exactly the images of both classes
\* that process without failure, in order.
C3_SkipAndContinue ==
    (calls = 1 /\ SaveEnded /\ err \notin {"io", "pool"}) =>
        RowFiles = FilesOf(SelectSeq(normal_files, NoFault))
                     \o FilesOf(SelectSeq(cov_files, NoFault))

\* C4: every row is the LBP values, the Haralick mean, the Zernike moments,
\* the TAS values and the radiomics values of its image, in this order,
\* followed by the label.
C4_FiveSubvectorsInOrder ==
    \A k \in 1..Len(WholeRows) :
        \E i \in 1..(Len(normal_files) + Len(cov_files)) :
            LET img == (normal_files \o cov_files)[i]
                label == IF i <= Len(normal_files) THEN 0 ELSE 1
            IN  WholeRows[k] = Lbp(img) \o Haralick(img) \o Zernike(img) \o Tas(img)
                                \o Radiomics(img) \o <<label>>

StripSuffix(stem) ==
    IF Len(stem) >= 1 /\ stem[Len(stem)] = "_processed"
    THEN SubSeq(stem, 1, Len(stem) - 1)
    ELSE stem

\* C5: a pair is constructed exactly when the extensions are equal and the
\* mask stem is the image stem, a "_processed" suffix removed, followed by
\* "_mask".
C5_AcceptedIffNamingRule ==
    tuple # NoTuple =>
        (tuple.raised = "none"
           <=> /\ tuple.image.ext = tuple.mask.ext
               /\ tuple.mask.stem = StripSuffix(tuple.image.stem) \o <<"_mask">>)

MaskOf(g, m) == [p \in Pos |-> IF m[p] <= 20 THEN 0 ELSE g[p]]

\* C6: the kernel is called on the equalized, unmasked image, and the data
\* stored in the processed image (and saved) is mask(equalize(raw)).
C6_EqualizeThenMask ==
    /\ ppc = "loaded" => eq_img_data = 0 /\ processed_image_data = 0
    /\ Processed =>
          /\ pre.img = Equalize(loaded.image)
          /\ pre.mask = loaded.mask
          /\ heap[img_data] = MaskOf(Equalize(loaded.image), loaded.mask)
    /\ ppc = "saved" => saved.data = MaskOf(Equalize(loaded.image), loaded.mask)

\* C6 witness: a processed image for which masking first and equalizing
\* afterwards would have given other data.
C6_Witness ==
    /\ ppc = "saved"
    /\ saved.data # Equalize(MaskOf(loaded.image, loaded.mask))
    /\ saved.data # MaskOf(loaded.image, loaded.mask)

\* C7: whenever save has returned or raised, the pool it created is closed
\* and joined (when creating the pool itself failed, there is no pool); a
\* pool is open only while save is in its loops.
C7_PoolJoinedOnExit ==
    /\ SaveEnded => IF err = "pool" THEN pool = "none" ELSE pool = "joined"
    /\ pool = "open" => pc \in {"normal", "cov"}

\* C7 witness: every row was written and both bars stand at their totals,
\* the close of the file failed, save raised, and the pool is joined.
C7_Witness ==
    /\ pc = "raised" /\ err = "io" /\ pool = "joined"
    /\ normal_lenght >= 1 /\ cov_lenght >= 1
    /\ normal_progress = normal_lenght /\ cov_progress = cov_lenght
    /\ Len(out_rows) >= 1

\* C8: after the kernel's call its two argument arrays hold what they held
\* at the call, and the array returned is neither of them.
C8_InputsUntouched ==
    Processed =>
        /\ heap[eq_img_data] = pre.img
        /\ heap[mask_data] = pre.mask
        /\ processed_image_data \notin {eq_img_data, mask_data}
        /\ heap[1] = loaded.image

\* C8 witness: the kernel returned a grid that differs from its input image,
\* and the input image is as it was.
C8_Witness ==
    /\ Processed
    /\ heap[processed_image_data] # heap[eq_img_data]
    /\ heap[eq_img_data] = pre.img

PairsWithOwnMask(i) ==
    /\ mask_files[i] = [stem |-> files[i].stem \o <<"_mask">>, ext |-> files[i].ext]
    /\ CheckConsistency(files[i], mask_files[i]).raised = "none"
    /\ CheckConsistency([stem |-> files[i].stem \o <<"_processed">>, ext |-> files[i].ext],
                        mask_files[i]).raised = "none"

\* C9: once the mask generator has run on a folder, it has written for the
\* i-th input file S.E the mask S_mask.E, and that mask passes pair
\* validation against S.E and against S_processed.E.
C9_EveryMaskPairs ==
    gen_call.op \in {"generate", "generate_lungs_masks"} =>
        /\ gen_call.raised = "none"
        /\ Len(mask_files) = Len(files)
        /\ \A i \in 1..Len(files) : PairsWithOwnMask(i)

\* C10: when save ends, the progress count of each class equals the image
\* count taken for that class at construction, failed images included.
C10_ProgressReachesTotal ==
    (calls = 1 /\ SaveEnded /\ err \notin {"io", "pool"}) =>
        /\ normal_progress = normal_lenght
        /\ cov_progress = cov_lenght

ExtensionsDiffer == tuple.image.ext # tuple.mask.ext

\* The failure of the pair (scanA.png, scanB_mask.png): equal extensions, a
\* mask stem that is not the expected one.
InvalidMaskFailure ==
    CheckConsistency([stem |-> <<"scanA">>, ext |-> ".png"],
                     [stem |-> <<"scanB", "_mask">>, ext |-> ".png"])

\* C11: a failure on differing extensions names both file names and is of
\* another kind of error than the failure on an unexpected mask stem, so
\* that the caller can tell them apart by the kind raised.
C11_ErrorKindsDiffer ==
    (tuple # NoTuple /\ tuple.raised # "none" /\ ExtensionsDiffer) =>
        /\ tuple.message.first = <<tuple.image.stem, tuple.image.ext>>
        /\ tuple.message.second = <<tuple.mask.stem, tuple.mask.ext>>
        /\ InvalidMaskFailure.raised # "none"
        /\ tuple.raised # InvalidMaskFailure.raised

\* C12: the mask looked up for an image is <mask_dir>/<stem>_mask<ext>,
\* where <stem> is the image stem with only a trailing "_processed" removed;
\* the directory path and a "_processed" elsewhere in the stem are untouched.
C12_OnlyTrailingMarkerStripped ==
    tuple # NoTuple =>
        tuple.mask_path = [dir  |-> tuple.masks_dir_path,
                           stem |-> StripSuffix(tuple.image.stem) \o <<"_mask">>,
                           ext  |-> tuple.image.ext]

\* The last call of save has opened (and emptied) the output.
OutputOpened == pc \in {"normal", "cov", "returned"} \/ (pc = "raised" /\ err = "image")

\* C13: the streams are single-use: the rows of a call of save are rows of
\* images that call took from the streams itself, never of images consumed
\* before it; a call made after a call that returned finds both streams
\* ended, takes no image and leaves the output empty.
C13_StreamsSingleUse ==
    /\ OutputOpened =>
          \A k \in 1..Len(out_rows) :
              LET f == RowFile(out_rows[k])
              IN  \/ f[1] = "normal" /\ at_call.normal_pos < f[2] /\ f[2] <= normal_pos
                  \/ f[1] = "cov" /\ at_call.cov_pos < f[2] /\ f[2] <= cov_pos
    /\ (calls >= 1 /\ at_call.pc = "returned") =>
          /\ normal_pos = at_call.normal_pos
          /\ cov_pos = at_call.cov_pos
          /\ OutputOpened => out_rows = <<>>

\* C13 witness: a first save wrote the rows of both classes and returned; a
\* second save on the same object has returned and the output is empty.
C13_Witness ==
    /\ calls = 2 /\ at_call.pc = "returned" /\ pc = "returned"
    /\ Len(normal_files) >= 1 /\ Len(cov_files) >= 1
    /\ out_rows = <<>>
    /\ normal_progress = 0 /\ cov_progress = 0

====
